---- MODULE Spec2Model ----
(***************************************************************************)
(* Model of the forest-regeneration utility scripts:                       *)
(*   random_tray_configs.py / random-tray-configs.py  (generate_plate)     *)
(*   quantify_seeds.py                                (quantify_seeds)     *)
(*                                                                         *)
(* Python lists are modelled as TLA+ sequences (1-based); the plate, which *)
(* the scripts index with row and column numbers, is a function over the   *)
(* 0-based row and column indices, as in the source.  The two tray scripts *)
(* differ only in the control label ('C' / 'E') and in display strings;    *)
(* generate_plate is the same in both.                                     *)
(***************************************************************************)
EXTENDS Integers, Sequences, FiniteSets, TLC

VARIABLES
    plate_size,   \* (rows, cols) of a tray                      [tray scripts]
    position_L,   \* (row, col) of the logger 'L'                [tray scripts]
    objects,      \* the fill labels, in construction order      [tray scripts]
    rng,          \* state of the module-level random generator  [tray scripts]
    plates,       \* the plates returned so far (list `plates`)  [tray scripts]
    trayError,    \* "" or the exception that ended the script   [tray scripts]
    calls,        \* history: one entry per generate_plate call
    tree_dict,    \* the table handed to quantify_seeds          [quantify_seeds]
    stdout,       \* the blocks printed so far                   [quantify_seeds]
    seedsPc       \* "start", "done" or the exception raised     [quantify_seeds]

vars == <<plate_size, position_L, objects, rng, plates, trayError, calls,
          tree_dict, stdout, seedsPc>>

trayVars == <<plate_size, position_L, objects, rng, plates, trayError, calls>>
seedVars == <<tree_dict, stdout, seedsPc>>

(***************************************************************************)
(* Bounds of the model.                                                    *)
(***************************************************************************)
MaxRows == 2        \* small trays have 1..MaxRows rows
MaxCols == 3        \* small trays have 1..MaxCols columns
MaxSeed == 2        \* random.seed is called with 0..MaxSeed
MaxCalls == 2       \* generate_plate is called at most MaxCalls times
RngModulus == 16    \* number of states of the abstract random generator
MaxRecords == 2     \* tables handed to quantify_seeds have 0..MaxRecords rows
MaxWeight == 2      \* small records have TKG bounds in -1..MaxWeight half grams

(***************************************************************************)
(* Tray scripts: constants of the source.                                  *)
(***************************************************************************)
Repeat(label, n) == [i \in 1..n |-> label]

\* objects = ['C']*3 + ['P. abies']*5 + ['P. cembra']*5 + ... (23 labels)
objects_src ==
    Repeat("C", 3) \o Repeat("P. abies", 5) \o Repeat("P. cembra", 5)
        \o Repeat("A. pseudoplatanus", 5) \o Repeat("S. aucuparia", 5)

plate_size_src == <<4, 6>>
position_L_src == <<2, 2>>

seed_src == 69      \* random.seed(69)
num_plates == 72    \* size of the batch `plates`

Seeds == (0..MaxSeed) \cup {seed_src}

Min(a, b) == IF a < b THEN a ELSE b

(***************************************************************************)
(* The random generator.  The scripts use Python's module-level generator, *)
(* whose algorithm is not part of the repository: it is abstracted to a    *)
(* deterministic generator with RngModulus states.  What the scripts rely  *)
(* on is kept: seeding fixes the state, every draw is a function of the    *)
(* state and advances it.                                                  *)
(***************************************************************************)
seed_state(s) == s % RngModulus

\* a draw from 0..n-1 that depends on the state of the generator and on
\* something else besides (an unseeded source)
randbelow_unseeded(st, n) ==
    LET nxt == (13 * st + 3) % RngModulus
    IN  [value |-> (nxt + Len(calls)) % n, rng |-> nxt]

\* one draw from 0..n-1: the value drawn and the state after the draw
randbelow(st, n) ==
    LET nxt == (13 * st + 3) % RngModulus
    IN  [value |-> nxt % n, rng |-> nxt]

\* random.shuffle(x): for i in reversed(range(1, len(x))):
\*                        j = randbelow(i + 1); x[i], x[j] = x[j], x[i]
RECURSIVE shuffle_from(_, _, _)
shuffle_from(x, st, i) ==
    IF i < 2
    THEN [list |-> x, rng |-> st]
    ELSE LET d == randbelow(st, i)
             j == d.value + 1
         IN  shuffle_from([x EXCEPT ![i] = x[j], ![j] = x[i]], d.rng, i - 1)

shuffle(x, st) == shuffle_from(x, st, Len(x))

(***************************************************************************)
(* generate_plate                                                          *)
(***************************************************************************)
\* plate = [['' for _ in range(cols)] for _ in range(rows)]
empty_plate(ps) == [r \in 0..(ps[1] - 1) |-> [c \in 0..(ps[2] - 1) |-> ""]]

\* Python list indexing: lst[i] is defined for -len <= i < len, and a
\* negative i counts from the end
index_ok(i, n) == -n <= i /\ i < n
index_at(i, n) == IF i < 0 THEN n + i ELSE i

\* [(r, c) for r in range(rows) for c in range(cols)], row-major
all_positions(ps) ==
    [k \in 1..(ps[1] * ps[2]) |-> <<(k - 1) \div ps[2], (k - 1) % ps[2]>>]

\* the comprehension without its filter: the logger's cell stays available
available_positions_unfiltered(ps, pl) == all_positions(ps)

\* ... if (r, c) != position_L
available_positions(ps, pl) ==
    SelectSeq(all_positions(ps), LAMBDA p : p # pl)

\* for obj, (r, c) in zip(objects, available_positions): plate[r][c] = obj
\* (zip stops at the end of the shorter list)
RECURSIVE assign_from(_, _, _, _)
assign_from(plate, objs, pos, i) ==
    IF i > Min(Len(objs), Len(pos))
    THEN plate
    ELSE assign_from([plate EXCEPT ![pos[i][1]][pos[i][2]] = objs[i]],
                     objs, pos, i + 1)

\* generate_plate that shuffles the labels instead of the positions
generate_plate_shuffling_objects(ps, pl, objs, st) ==
    IF ~(index_ok(pl[1], ps[1]) /\ index_ok(pl[2], ps[2]))
    THEN [plate |-> <<>>, rng |-> st, objects |-> objs, error |-> "IndexError"]
    ELSE LET r0    == index_at(pl[1], ps[1])
             c0    == index_at(pl[2], ps[2])
             withL == [empty_plate(ps) EXCEPT ![r0][c0] = "L"]
             sh    == shuffle(objs, st)
         IN  [plate   |-> assign_from(withL, sh.list, available_positions(ps, pl), 1),
              rng     |-> sh.rng,
              objects |-> sh.list,
              error   |-> ""]

\* The whole effect of one call: the plate returned (or the exception
\* raised), the generator's state and the label list after the call.
generate_plate(ps, pl, objs, st) ==
    IF ~(index_ok(pl[1], ps[1]) /\ index_ok(pl[2], ps[2]))
    THEN \* plate[position_L[0]][position_L[1]] = 'L' raises IndexError
         [plate |-> <<>>, rng |-> st, objects |-> objs, error |-> "IndexError"]
    ELSE LET r0    == index_at(pl[1], ps[1])
             c0    == index_at(pl[2], ps[2])
             withL == [empty_plate(ps) EXCEPT ![r0][c0] = "L"]
             sh    == shuffle(available_positions(ps, pl), st)
         IN  [plate   |-> assign_from(withL, objs, sh.list, 1),
              rng     |-> sh.rng,
              objects |-> objs,
              error   |-> ""]

(***************************************************************************)
(* Layouts the tray scripts are run with: the layout of the source, and    *)
(* small layouts (valid, with a label count that does not match the tray,  *)
(* and with a logger position outside the tray).                           *)
(***************************************************************************)
SmallSizes == (1..MaxRows) \X (1..MaxCols)

Cells(ps) == (0..(ps[1] - 1)) \X (0..(ps[2] - 1))

\* the five labels of the source, in the order in which objects lists them
label_order == <<"C", "P. abies", "P. cembra", "A. pseudoplatanus", "S. aucuparia">>

\* label lists: nC controls followed by one species, as the source builds
\* them, and the list that cycles through the five labels (all different
\* while n <= 5, so that every permutation gives another plate)
LabelLists(n) ==
    {Repeat("C", k) \o Repeat("P. abies", n - k) : k \in 0..n}
        \cup {[i \in 1..n |-> label_order[((i - 1) % 5) + 1]]}

Layout(ps, pl, objs) == [size |-> ps, pos |-> pl, objs |-> objs]

ValidLayouts ==
    {Layout(plate_size_src, position_L_src, objects_src)}
    \cup UNION {{Layout(ps, pl, objs) : pl \in Cells(ps),
                                       objs \in LabelLists(ps[1] * ps[2] - 1)}
                : ps \in SmallSizes}

MismatchedLayouts ==
    {Layout(plate_size_src, position_L_src, SubSeq(objects_src, 1, 22))}
    \cup UNION {{Layout(ps, pl, Repeat("C", n)) :
                    pl \in Cells(ps),
                    n \in {m \in {ps[1] * ps[2] - 2, ps[1] * ps[2]} : m >= 0}}
                : ps \in SmallSizes}

OutOfBoundsLayouts ==
    UNION {{Layout(ps, pl, Repeat("C", ps[1] * ps[2] - 1)) :
                pl \in ((-(ps[1] + 1))..ps[1]) \X ((-(ps[2] + 1))..ps[2]) \ Cells(ps)}
           : ps \in SmallSizes}

Layouts == ValidLayouts \cup MismatchedLayouts \cup OutOfBoundsLayouts

\* tree_dictionary of quantify_seeds.py; weights are floats in the source
\* and are held here as exact multiples of half a gram (3.5 g = 7)
tree_dictionary ==
    << <<"Picea abies", 8, 16, 200>>,
       <<"Pinus cembra", 300, 600, 4000>>,
       <<"Acer pseudoplatanus", 200, 500, 6000>>,
       <<"Sorbus aucuparia", 7, 10, 400>> >>

(***************************************************************************)
(* The tray scripts as a state machine.                                    *)
(***************************************************************************)
Init ==
    /\ \E lay \in Layouts :
          /\ plate_size = lay.size
          /\ position_L = lay.pos
          /\ objects = lay.objs
    /\ \E s \in Seeds : rng = seed_state(s)
    /\ plates = <<>>
    /\ trayError = ""
    /\ calls = <<>>
    /\ tree_dict = tree_dictionary
    /\ stdout = <<>>
    /\ seedsPc = "start"

\* random.seed(s)
seed(s) ==
    /\ trayError = ""
    /\ rng' = seed_state(s)
    /\ UNCHANGED <<plate_size, position_L, objects, plates, trayError, calls>>
    /\ UNCHANGED seedVars

\* one call of generate_plate() by the script (test plate, or one element
\* of the batch `plates`); an exception ends the script
GeneratePlate ==
    /\ trayError = ""
    /\ Len(calls) < num_plates
    /\ Len(calls) < MaxCalls
    /\ LET res == generate_plate(plate_size, position_L, objects, rng)
       IN  /\ rng' = res.rng
           /\ objects' = res.objects
           /\ trayError' = res.error
           /\ plates' = IF res.error = "" THEN Append(plates, res.plate) ELSE plates
           /\ calls' = Append(calls, [rng |-> rng, plate |-> res.plate,
                                      error |-> res.error])
    /\ UNCHANGED <<plate_size, position_L>>
    /\ UNCHANGED seedVars

Next ==
    \/ \E s \in Seeds : seed(s)
    \/ GeneratePlate

Spec == Init /\ [][Next]_vars

(***************************************************************************)
(* quantify_seeds                                                          *)
(***************************************************************************)
\* math.floor(a / b) on floats, b # 0 (exact at the magnitudes modelled)
floor_div(a, b) == IF b > 0 THEN a \div b ELSE (-a) \div (-b)

\* the mean without the division by two
mean_seed_count_sum(mn, mx) == mn + mx

\* mean_seed_count = math.floor((min_seed_count + max_seed_count) / 2)
mean_seed_count(mn, mx) == floor_div(mn + mx, 2)

\* the counts with each bound paired with the same bound of the weight
seed_counts_same_bound(item) ==
    LET mx == floor_div(item[4] * 1000, item[3])
        mn == floor_div(item[4] * 1000, item[2])
    IN  [name |-> item[1], min_seed_count |-> mn, max_seed_count |-> mx,
         mean_seed_count |-> mean_seed_count(mn, mx)]

\* the block printed for one row [name, min TKG, max TKG, available weight]
seed_counts(item) ==
    LET mx == floor_div(item[4] * 1000, item[2])
        mn == floor_div(item[4] * 1000, item[3])
    IN  [name |-> item[1], min_seed_count |-> mn, max_seed_count |-> mx,
         mean_seed_count |-> mean_seed_count(mn, mx)]

\* for item in tree_dict: ... print(...); a division by a zero weight
\* raises ZeroDivisionError and ends the loop with what is printed so far
RECURSIVE quantify_from(_, _, _)
quantify_from(td, i, out) ==
    IF i > Len(td)
    THEN [stdout |-> out, error |-> ""]
    ELSE IF td[i][2] = 0 \/ td[i][3] = 0
         THEN [stdout |-> out, error |-> "ZeroDivisionError"]
         ELSE quantify_from(td, i + 1, Append(out, seed_counts(td[i])))

Reverse(q) == [i \in 1..Len(q) |-> q[Len(q) + 1 - i]]

\* the loop run over the table from its last row to its first
quantify_seeds_reversed(td) == quantify_from(Reverse(td), 1, <<>>)

quantify_seeds(td) == quantify_from(td, 1, <<>>)

\* rows the script is run with: the rows of the source and small rows,
\* among them rows with a zero or negative weight or with reversed bounds
RecordPool ==
    {tree_dictionary[i] : i \in 1..Len(tree_dictionary)}
    \cup {<<"sp", mn, mx, av>> : mn \in -1..MaxWeight, mx \in -1..MaxWeight,
                                 av \in {-1, 0, 5}}

Tables == UNION {[1..n -> RecordPool] : n \in 0..MaxRecords}

InitSeeds ==
    /\ plate_size = plate_size_src
    /\ position_L = position_L_src
    /\ objects = objects_src
    /\ rng = seed_state(seed_src)
    /\ plates = <<>>
    /\ trayError = ""
    /\ calls = <<>>
    /\ tree_dict \in Tables
    /\ stdout = <<>>
    /\ seedsPc = "start"

\* quantify_seeds(tree_dictionary): the whole run of the script
QuantifySeeds ==
    /\ seedsPc = "start"
    /\ LET res == quantify_seeds(tree_dict)
       IN  /\ stdout' = res.stdout
           /\ seedsPc' = IF res.error = "" THEN "done" ELSE res.error
    /\ UNCHANGED tree_dict
    /\ UNCHANGED trayVars

NextSeeds == QuantifySeeds

SpecSeeds == InitSeeds /\ [][NextSeeds]_vars

(***************************************************************************)
(* Properties of the tray scripts (checked under Spec).                    *)
(***************************************************************************)
\* the layout is one the specification calls valid
ValidLayout ==
    /\ position_L \in Cells(plate_size)
    /\ Len(objects) = plate_size[1] * plate_size[2] - 1

\* number of cells of plate p other than the pinned one that hold label l
CountInPlate(p, l) ==
    Cardinality({cell \in Cells(plate_size) \ {position_L} :
                    p[cell[1]][cell[2]] = l})

\* number of occurrences of label l in the fill labels
CountInObjects(l) == Cardinality({i \in 1..Len(objects) : objects[i] = l})

LabelsOf(p) ==
    {p[cell[1]][cell[2]] : cell \in Cells(plate_size)}
        \cup {objects[i] : i \in 1..Len(objects)}

IsPermutationOfLayout(p) ==
    /\ DOMAIN p = 0..(plate_size[1] - 1)
    /\ \A r \in DOMAIN p : DOMAIN p[r] = 0..(plate_size[2] - 1)
    /\ p[position_L[1]][position_L[2]] = "L"
    /\ \A cell \in Cells(plate_size) \ {position_L} :
          p[cell[1]][cell[2]] \notin {"L", ""}
    /\ \A l \in LabelsOf(p) \ {"L"} : CountInPlate(p, l) = CountInObjects(l)

\* C1: for a valid layout every plate returned by generate_plate holds 'L'
\* at the pinned position and nowhere else, leaves no cell at the '' sentinel,
\* and holds in its other cells exactly the multiset of the fill labels.
C1_PinnedAndFilled ==
    ValidLayout => \A i \in 1..Len(plates) : IsPermutationOfLayout(plates[i])

\* the layout of the source, generated twice with different permutations
C1_Witness ==
    /\ plate_size = plate_size_src
    /\ position_L = position_L_src
    /\ objects = objects_src
    /\ Len(plates) >= 2
    /\ plates[1] # plates[2]
    /\ plates[1][2][2] = "L"

C3_MismatchRejected ==
    (/\ position_L \in Cells(plate_size)
     /\ Len(objects) # plate_size[1] * plate_size[2] - 1
     /\ calls # <<>>)
        => (trayError = "LayoutSizeMismatch" /\ plates = <<>>)

\* C8 (as claimed): with the pinned position outside [0,rows) x [0,cols),
\* negative indices included, a call fails (any exception is taken for the
\* OutOfBounds failure) and no tray is returned.
C8_OutOfBoundsRejected ==
    (position_L \notin Cells(plate_size) /\ calls # <<>>)
        => (trayError # "" /\ plates = <<>>)

\* C10: a call of generate_plate changes nothing but the random source (and
\* the caller's list gains the new plate): objects, plate_size and
\* position_L are unchanged and every plate returned earlier is unchanged.
C10_Frame ==
    [][/\ objects' = objects
       /\ plate_size' = plate_size
       /\ position_L' = position_L
       /\ Len(plates') >= Len(plates)
       /\ \A i \in 1..Len(plates) : plates'[i] = plates[i]]_vars

\* a batch of plates of the source's layout after which the generator has
\* moved on and the second plate differs from the first
C10_Witness ==
    /\ objects = objects_src
    /\ plate_size = plate_size_src
    /\ Len(plates) >= 2
    /\ plates[2] # plates[1]
    /\ rng # calls[1].rng
    /\ rng # calls[2].rng

(***************************************************************************)
(* Properties of quantify_seeds (checked under SpecSeeds).                 *)
(***************************************************************************)
\* a row the specification calls valid
ValidRecord(item) ==
    item[2] > 0 /\ item[3] > 0 /\ item[4] > 0 /\ item[2] <= item[3]

\* q is the floor of a / b, for b > 0
IsFloorOf(q, a, b) == q * b <= a /\ a < (q + 1) * b

\* block is the estimate the specification defines for the row item
IsEstimateOf(block, item) ==
    /\ IsFloorOf(block.max_seed_count, item[4] * 1000, item[2])
    /\ IsFloorOf(block.min_seed_count, item[4] * 1000, item[3])
    /\ IsFloorOf(block.mean_seed_count,
                 block.min_seed_count + block.max_seed_count, 2)

\* C4: for a valid row the bounds are paired inversely and floored:
\* maxCount = floor(avail*1000/minWeight), minCount = floor(avail*1000/
\* maxWeight), meanCount = floor((minCount+maxCount)/2); the row (4, 8, 100)
\* gives 25000, 12500 and 18750.
C4_InversePairing ==
    \A i \in 1..Len(stdout) :
        /\ ValidRecord(tree_dict[i]) => IsEstimateOf(stdout[i], tree_dict[i])
        /\ tree_dict[i] = <<"Picea abies", 8, 16, 200>> =>
              /\ stdout[i].max_seed_count = 25000
              /\ stdout[i].min_seed_count = 12500
              /\ stdout[i].mean_seed_count = 18750

\* the row (4, 8, 100) and a row whose divisions and mean are all inexact
C4_Witness ==
    /\ seedsPc = "done"
    /\ tree_dict = << <<"Picea abies", 8, 16, 200>>,
                      <<"Pinus cembra", 300, 600, 4000>> >>
    /\ stdout[1].max_seed_count = 25000
    /\ stdout[2] = [name |-> "Pinus cembra", min_seed_count |-> 6666,
                    max_seed_count |-> 13333, mean_seed_count |-> 9999]

\* C5: for a valid row 0 <= minCount <= meanCount <= maxCount and the three
\* counts are (non-negative) integers.
C5_Ordered ==
    \A i \in 1..Len(stdout) :
        ValidRecord(tree_dict[i]) =>
            /\ stdout[i].min_seed_count \in Nat
            /\ stdout[i].mean_seed_count \in Nat
            /\ stdout[i].max_seed_count \in Nat
            /\ stdout[i].min_seed_count <= stdout[i].mean_seed_count
            /\ stdout[i].mean_seed_count <= stdout[i].max_seed_count

\* a valid row with distinct bounds, whose three counts are distinct
C5_Witness ==
    /\ seedsPc = "done"
    /\ Len(stdout) >= 1
    /\ ValidRecord(tree_dict[1])
    /\ stdout[1].min_seed_count < stdout[1].mean_seed_count
    /\ stdout[1].mean_seed_count < stdout[1].max_seed_count

\* C6 (as claimed): a table with a row that has a zero or negative weight
\* or minWeight > maxWeight makes the run fail (any exception is taken for
\* InvalidInput) and nothing is reported for such a row.
C6_InvalidRejected ==
    \A k \in 1..Len(tree_dict) :
        (seedsPc # "start" /\ ~ValidRecord(tree_dict[k])) =>
            /\ seedsPc # "done"
            /\ Len(stdout) < k

\* C7 (as claimed): a run that fails has printed nothing before failing.
C7_NoPartialOutput ==
    seedsPc \notin {"start", "done"} => stdout = <<>>

\* C9: for a table of n valid rows the run prints exactly n blocks, and the
\* i-th block carries the name of the i-th row and is the estimate of the
\* i-th row.
C9_OrderPreserving ==
    (seedsPc # "start" /\ \A k \in 1..Len(tree_dict) : ValidRecord(tree_dict[k]))
        => /\ seedsPc = "done"
           /\ Len(stdout) = Len(tree_dict)
           /\ \A i \in 1..Len(tree_dict) :
                 /\ stdout[i].name = tree_dict[i][1]
                 /\ IsEstimateOf(stdout[i], tree_dict[i])

\* two different valid rows, reported in the order of the table
C9_Witness ==
    /\ seedsPc = "done"
    /\ Len(tree_dict) = 2
    /\ \A k \in 1..2 : ValidRecord(tree_dict[k])
    /\ tree_dict[1][1] # tree_dict[2][1]
    /\ stdout[1].name = tree_dict[1][1]
    /\ stdout[2].name = tree_dict[2][1]
    /\ stdout[1].max_seed_count # stdout[2].max_seed_count

====
